---------------------------- MODULE Spec2Model ----------------------------
(* Verification model of the MemberSim generation framework:              *)
(*   src/src/membersim/generation/seed_manager.py   SeedManager           *)
(*   src/src/membersim/generation/distributions.py  WeightedChoice        *)
(*   src/src/membersim/generation/cohort.py         CohortConstraints,    *)
(*                                  CohortProgress, CohortGenerator       *)
(*                                                                        *)
(* Encodings.                                                             *)
(*  - A probability weight w is the integer w * 12800, so that both the   *)
(*    hundredths of the default distributions and multiples of 1/128      *)
(*    (exact in binary floating point) are integers; 1.0 is 12800 and     *)
(*    the tolerance 0.01 is 128.                                          *)
(*  - A dict is the sequence of its (key, value) items in insertion       *)
(*    order.  An Optional value is a sequence of length 0 (None) or 1.    *)
(*  - A seed key is the pair <<text, n>>: n = -1 for the literal string   *)
(*    text, n >= 0 for the formatted string f"{text}{n}".                 *)
(*  - hashlib.sha256 and random.Random are library code; they are         *)
(*    represented by fixed deterministic mixing functions of their        *)
(*    inputs (Sha8, RandomUnit) over a reduced range.                     *)
(*  - A consumer drives a generator object with next() and abandons it   *)
(*    with close(), which is also what its finalization does; it          *)
(*    requests count >= 0 entities.                                       *)
EXTENDS Integers, Sequences, FiniteSets, TLC

(***************************** bounds *************************************)
\* largest count requested from generate() in Spec and SpecPair
MaxCount == 3
\* generate() calls per CohortGenerator instance in Spec
MaxRuns == 2
\* largest count requested from get_seeds() in SpecSeed
MaxSeeds == 1
\* largest count requested from get_seeds() in SpecIter
MaxIter == 2
\* longest sequence of choices given to a WeightedChoice in SpecChoice
MaxChoices == 3
\* most draws taken from one sampler in SpecChoice, SpecAge and SpecNormal
MaxDraws == 2
\* indices beyond the second progress boundary in SpecCadence
CadenceExtra == 1
\* in SpecCadence the factory may fail at the indices i whose 1-based
\* position i + 1 is at most this far past a multiple of the interval
FailureWindow == 1

(*************************** optional values ******************************)
None == <<>>

Some(v) == <<v>>

IsNone(o) == Len(o) = 0

(***************************** seed keys **********************************)
Key(text) == <<text, -1>>

\* a key numbered from one
FKey_OneBased(prefix, i) == <<prefix \o "_", i + 1>>

\* f"entity_{i}", f"{prefix}_{i}"
FKey(prefix, i) == <<prefix \o "_", i>>

\* f"namespace:{namespace}"
NsKey(namespace) == <<"namespace:" \o namespace, -1>>

\* stand-in for the bytes of the key text fed to the hash
TextCode(text) ==
    CASE text = "gender" -> 1
      [] text = "plan" -> 2
      [] text = "age" -> 3
      [] text = "entity_" -> 4
      [] text = "member_" -> 5
      [] text = "test" -> 6
      [] text = "namespace:claims" -> 7
      [] text = "namespace:members" -> 8
      [] text = "claim_" -> 9
      [] OTHER -> 10

HashRange == 65521

\* seed_manager.py:48-50: sha256(f"{master_seed}:{key}")[:8] as an integer
Sha8(master_seed, key) ==
    ((master_seed % HashRange) * 7919 + TextCode(key[1]) * 104729
        + (key[2] + 1) * 1299709 + 12345) % HashRange

(***************************** SeedManager ********************************)
EmptyCache == [k \in {} |-> 0]

\* seed_manager.py:26-33
NewSeedManager(master_seed) ==
    [master_seed |-> master_seed, cache |-> EmptyCache]

\* seed_manager.py:35-53, the value returned
get_seed(sm, key) ==
    IF key \in DOMAIN sm.cache THEN sm.cache[key]
    ELSE Sha8(sm.master_seed, key)

\* a memo that stores the hash of the key without the master seed
get_seed_post_Unsalted(sm, key) ==
    IF key \in DOMAIN sm.cache THEN sm
    ELSE [sm EXCEPT !.cache = @ @@ (key :> Sha8(0, key))]

\* seed_manager.py:35-53, the manager after the call
get_seed_post(sm, key) ==
    IF key \in DOMAIN sm.cache THEN sm
    ELSE [sm EXCEPT !.cache = @ @@ (key :> Sha8(sm.master_seed, key))]

\* a reset that also re-seeds the manager
reset_Reseed(sm) == [sm EXCEPT !.cache = EmptyCache, !.master_seed = @ + 1]

\* seed_manager.py:82-84
reset(sm) == [sm EXCEPT !.cache = EmptyCache]

(*************************** random.Random ********************************)
RandRes == 1000

\* the n-th value (n = 0, 1, ...) of Random(seed).random(), in units of
\* 1/RandRes
RandomUnit(seed, n) ==
    ((seed % 9973) * 37 + n * n * 11 + n * 101 + (seed % 7) * n * 53 + 7)
        % RandRes

(*************************** WeightedChoice *******************************)
RECURSIVE SumWeights(_)
SumWeights(ws) ==
    IF Len(ws) = 0 THEN 0 ELSE ws[1] + SumWeights(Tail(ws))

\* a constructor that accepts weights whose total is zero
WeightedChoiceError_ZeroTotal(choices) ==
    IF Len(choices) = 0 THEN "choices cannot be empty"
    ELSE IF \E n \in 1..Len(choices) : choices[n][2] < 0
        THEN "weights cannot be negative"
    ELSE ""

\* distributions.py:34-45: the error raised by the constructor, "" if none
WeightedChoiceError(choices) ==
    IF Len(choices) = 0 THEN "choices cannot be empty"
    ELSE IF \E n \in 1..Len(choices) : choices[n][2] < 0
        THEN "weights cannot be negative"
    ELSE IF SumWeights([n \in 1..Len(choices) |-> choices[n][2]]) = 0
        THEN "total weight cannot be zero"
    ELSE ""

\* distributions.py:37-39: the constructed object; pos counts the draws
\* taken from its private Random(seed)
NewWeightedChoice(choices, seed) ==
    [values |-> [n \in 1..Len(choices) |-> choices[n][1]],
     weights |-> [n \in 1..Len(choices) |-> choices[n][2]],
     seed |-> seed,
     pos |-> 0]

NoChoice == [values |-> <<>>, weights |-> <<>>, seed |-> 0, pos |-> 0]

\* itertools.accumulate(weights)[n]
CumWeight(ws, n) == SumWeights(SubSeq(ws, 1, n))

\* distributions.py:47-49: random.choices(values, weights, k=1)[0], that is
\* values[bisect(cum_weights, random() * total, 0, len - 1)]
select(wc) ==
    LET total == SumWeights(wc.weights)
        r == RandomUnit(wc.seed, wc.pos)
        hits == {n \in 1..(Len(wc.values) - 1) :
                    CumWeight(wc.weights, n) * RandRes > r * total}
        at == IF hits = {} THEN Len(wc.values)
              ELSE CHOOSE n \in hits : \A m \in hits : n <= m
    IN wc.values[at]

\* a sampler that takes two values of random() for one draw
select_post_Twice(wc) == [wc EXCEPT !.pos = @ + 2]

\* distributions.py:47-49: the sampler after one draw
select_post(wc) == [wc EXCEPT !.pos = @ + 1]

(**************************** AgeDistribution *****************************)
Max2(a, b) == IF a >= b THEN a ELSE b

Min2(a, b) == IF a <= b THEN a ELSE b

\* distributions.py:126-130: (band, band_min, band_max) in dict order
band_definitions ==
    << <<"pediatric", 0, 17>>, <<"commercial", 18, 64>>, <<"medicare", 65, 100>> >>

\* distributions.py:112-114, in tenths: commercial 0.7, medicare 0.2,
\* pediatric 0.1
DefaultBandWeights ==
    [commercial_weight |-> 7, medicare_weight |-> 2, pediatric_weight |-> 1]

\* distributions.py:126-130: the weight of the band
BandWeight(band, weights) ==
    CASE band = "pediatric" -> weights.pediatric_weight
      [] band = "commercial" -> weights.commercial_weight
      [] band = "medicare" -> weights.medicare_weight

\* a band whose upper end is not clipped
EffectiveRange_UpperUnclipped(band, min_age, max_age) ==
    <<Max2(band[2], min_age), band[3]>>

\* distributions.py:138-139: (effective_min, effective_max)
EffectiveRange(band, min_age, max_age) ==
    <<Max2(band[2], min_age), Min2(band[3], max_age)>>

\* distributions.py:136-144: the bands kept, as (band, effective_min,
\* effective_max), in dict order
SurvivingBands(min_age, max_age) ==
    LET Clip(band) ==
            <<band[1], EffectiveRange(band, min_age, max_age)[1],
              EffectiveRange(band, min_age, max_age)[2]>>
        clipped == [n \in 1..Len(band_definitions) |-> Clip(band_definitions[n])]
        Kept(entry) == entry[2] <= entry[3]
    IN  SelectSeq(clipped, Kept)

\* distributions.py:143: valid_bands, the (band, weight) pairs kept
ValidBands(min_age, max_age, weights) ==
    LET kept == SurvivingBands(min_age, max_age)
    IN  [n \in 1..Len(kept) |-> <<kept[n][1], BandWeight(kept[n][1], weights)>>]

\* distributions.py:146-149: the error raised by the constructor, "" if none
AgeDistributionError(min_age, max_age, weights) ==
    IF Len(ValidBands(min_age, max_age, weights)) = 0
    THEN "No valid age bands"
    ELSE WeightedChoiceError(ValidBands(min_age, max_age, weights))

\* distributions.py:121-149: the constructed object; pos counts the draws
\* taken from self._rng
NewAgeDistribution(min_age, max_age, weights, seed) ==
    [min_age |-> min_age, max_age |-> max_age,
     _band_ranges |-> SurvivingBands(min_age, max_age),
     _bands |-> NewWeightedChoice(ValidBands(min_age, max_age, weights), seed),
     seed |-> seed, pos |-> 0]

NoAgeDistribution ==
    [min_age |-> 0, max_age |-> 0, _band_ranges |-> <<>>, _bands |-> NoChoice,
     seed |-> 0, pos |-> 0]

\* the n-th value of Random(seed).randint(a, b)
randint(seed, n, a, b) ==
    a + (((seed % 9973) * 61 + n * 7919 + (seed % 11) * n * 37 + 13) % (b - a + 1))

\* distributions.py:153: the band drawn by sample()
sample_band(d) == select(d._bands)

\* distributions.py:151-155: the value sample() returns
sample_age(d) ==
    LET band == sample_band(d)
        range == CHOOSE entry \in {d._band_ranges[n] : n \in 1..Len(d._band_ranges)} :
                    entry[1] = band
    IN  randint(d.seed, d.pos, range[2], range[3])

\* distributions.py:151-155: the sampler after one sample()
sample_age_post(d) ==
    [d EXCEPT !._bands = select_post(@), !.pos = @ + 1]

(*************************** NormalDistribution ***************************)
\* a clamp that takes a bound of 0 for no bound
sample_normal_Truthy(min_val, max_val, g) ==
    LET low == IF ~IsNone(min_val) /\ min_val[1] # 0
               THEN Max2(g, min_val[1]) ELSE g
    IN  IF ~IsNone(max_val) /\ max_val[1] # 0
        THEN Min2(low, max_val[1]) ELSE low

\* distributions.py:95-102: the value sample() returns when gauss() gave g
sample_normal(min_val, max_val, g) ==
    LET low == IF ~IsNone(min_val) THEN Max2(g, min_val[1]) ELSE g
    IN  IF ~IsNone(max_val) THEN Min2(low, max_val[1]) ELSE low

(************************** CohortConstraints *****************************)
\* 1.0 and the tolerance 0.01 of cohort.py:52, in weight units
One == 12800

Tolerance == 128

\* cohort.py:24
DefaultGender == << <<"M", 6272>>, <<"F", 6528>> >>

\* cohort.py:25-33
DefaultAge ==
    << <<"0-17", 1280>>, <<"18-34", 2560>>, <<"35-54", 4480>>,
       <<"55-64", 2560>>, <<"65+", 1920>> >>

\* cohort.py:34-40
DefaultPlan == << <<"HMO", 4480>>, <<"PPO", 5120>>, <<"HDHP", 3200>> >>

\* cohort.py:17-41, CohortConstraints()
DefaultConstraints ==
    [gender_distribution |-> DefaultGender,
     age_distribution |-> DefaultAge,
     plan_distribution |-> DefaultPlan,
     state_distribution |-> None]

DistTotal(dist) == SumWeights([n \in 1..Len(dist) |-> dist[n][2]])

Abs(x) == IF x < 0 THEN -x ELSE x

\* cohort.py:51-52
SumsToOne(dist) == ~(Abs(DistTotal(dist) - One) > Tolerance)

\* cohort.py:46-50: the distributions validate() visits, in order
ValidatedDistributions(c) ==
    << <<"gender", c.gender_distribution>>,
       <<"age", c.age_distribution>>,
       <<"plan", c.plan_distribution>> >>

\* cohort.py:53: f"{name} distribution sums to {total}, should be 1.0"
Violation(name, dist) == <<name, DistTotal(dist)>>

RECURSIVE CollectViolations(_)
CollectViolations(named) ==
    IF Len(named) = 0 THEN <<>>
    ELSE (IF SumsToOne(named[1][2]) THEN <<>>
          ELSE <<Violation(named[1][1], named[1][2])>>)
         \o CollectViolations(Tail(named))

\* a validation that stops at the first violation
validate_FirstOnly(c) ==
    LET all == CollectViolations(ValidatedDistributions(c))
    IN  IF Len(all) = 0 THEN all ELSE <<all[1]>>

\* cohort.py:43-54
validate(c) == CollectViolations(ValidatedDistributions(c))

(*************************** CohortProgress *******************************)
\* cohort.py:57-63
NewProgress(total) == [total |-> total, completed |-> 0, failed |-> 0]

\* complete only once the counters exceed the total
is_complete_Strict(p) == p.completed + p.failed > p.total

\* cohort.py:69-71
is_complete(p) == p.completed + p.failed >= p.total

(************************** CohortGenerator *******************************)
\* the two CohortGenerator instances of the model
Generators == {1, 2}

\* cohort.py:189: the progress report interval
ReportEvery == 100

\* a default that replaces only a missing seed
SeedOr42_NoneOnly(seed) == IF IsNone(seed) THEN 42 ELSE seed[1]

\* cohort.py:111: seed or 42
SeedOr42(seed) == IF IsNone(seed) \/ seed[1] = 0 THEN 42 ELSE seed[1]

\* cohort.py:110: constraints or CohortConstraints()
ConstraintsOrDefault(constraints) ==
    IF IsNone(constraints) THEN DefaultConstraints ELSE constraints[1]

\* a lookup that recognizes no band above 54
KnownAgeBand_Below55(age_band) == age_band \in {"0-17", "18-34", "35-54"}

\* cohort.py:131-142: whether the lookup returns (TRUE) or raises (FALSE)
KnownAgeBand(age_band) ==
    age_band \in {"0-17", "18-34", "35-54", "55-64", "65+"}

\* a table whose last band ends at 100
_select_age_band_To100(age_band) ==
    CASE age_band = "0-17" -> <<0, 17>>
      [] age_band = "18-34" -> <<18, 34>>
      [] age_band = "35-54" -> <<35, 54>>
      [] age_band = "55-64" -> <<55, 64>>
      [] age_band = "65+" -> <<65, 100>>

\* cohort.py:129-142
_select_age_band(age_band) ==
    CASE age_band = "0-17" -> <<0, 17>>
      [] age_band = "18-34" -> <<18, 34>>
      [] age_band = "35-54" -> <<35, 54>>
      [] age_band = "55-64" -> <<55, 64>>
      [] age_band = "65+" -> <<65, 90>>

VARIABLES
    gen,      \* gen[g]: the fields of CohortGenerator instance g
    run,      \* run[g]: the frame of g's most recent generate() generator
    obs,      \* obs[g]: what the factory, the callback and the consumer of
              \*         g have observed (history)
    thread,   \* the generator whose frame is executing, 0 when none is
    managers, \* the SeedManager instances a caller has created directly or
              \* through child_manager, in creation order
    iters,    \* the generator object most recently returned by get_seeds:
              \* <<frame>>, <<>> before the first call
    returned, \* the most recent return of a stand-alone get_seed call:
              \* <<[master_seed, key, value]>>, <<>> before the first
    choice,   \* a WeightedChoice a caller constructs and draws from
    ages,     \* an AgeDistribution a caller constructs and samples
    normal    \* a NormalDistribution a caller constructs and samples

cohortVars == <<gen, run, obs, thread>>

seedVars == <<managers, iters, returned>>

distVars == <<choice, ages, normal>>

\* what the cohort operations leave alone
notCohort == <<seedVars, distVars>>

\* what the stand-alone SeedManager operations leave alone
notSeed == <<cohortVars, distVars>>

\* what the stand-alone sampler operations leave alone
notDist == <<cohortVars, seedVars>>

vars ==
    <<gen, run, obs, thread, managers, iters, returned, choice, ages, normal>>

NoError == [kind |-> "", detail |-> <<>>]

NoGenerator ==
    [status |-> "none",
     constraints |-> DefaultConstraints,
     seed |-> None,
     seed_manager |-> NewSeedManager(0),
     progress_callback |-> FALSE,
     _gender_choice |-> NoChoice,
     _plan_choice |-> NoChoice,
     error |-> NoError]

NoRun ==
    [n |-> 0, pc |-> "none", count |-> 0, i |-> 0,
     progress |-> NewProgress(0), age_choice |-> NoChoice,
     error |-> NoError]

NoObs ==
    [yielded |-> 0, processed |-> 0, factory_failed |-> 0,
     lookup_failed |-> 0, calls |-> <<>>, callbacks |-> <<>>,
     steps |-> <<>>, callback_raised |-> FALSE]

CohortInit ==
    /\ gen = [g \in Generators |-> NoGenerator]
    /\ run = [g \in Generators |-> NoRun]
    /\ obs = [g \in Generators |-> NoObs]
    /\ thread = 0

\* cohort.py:94-127, CohortGenerator.__init__: the instance it leaves behind;
\* status "error" when it raised, with the fields assigned before the raise
Constructed(constraints, seed, progress_callback) ==
    LET c == ConstraintsOrDefault(constraints)
        sm0 == NewSeedManager(SeedOr42(seed))
        errors == validate(c)
        gkey == Key("gender")
        sm1 == get_seed_post(sm0, gkey)
        gerr == WeightedChoiceError(c.gender_distribution)
        gchoice == NewWeightedChoice(c.gender_distribution, get_seed(sm0, gkey))
        pkey == Key("plan")
        sm2 == get_seed_post(sm1, pkey)
        perr == WeightedChoiceError(c.plan_distribution)
        pchoice == NewWeightedChoice(c.plan_distribution, get_seed(sm1, pkey))
        base == [NoGenerator EXCEPT !.constraints = c, !.seed = seed,
                    !.progress_callback = progress_callback]
    IN  IF Len(errors) > 0
        THEN [base EXCEPT !.status = "error", !.seed_manager = sm0,
                !.error = [kind |-> "Invalid constraints", detail |-> errors]]
        ELSE IF gerr # ""
        THEN [base EXCEPT !.status = "error", !.seed_manager = sm1,
                !.error = [kind |-> gerr, detail |-> <<>>]]
        ELSE IF perr # ""
        THEN [base EXCEPT !.status = "error", !.seed_manager = sm2,
                !._gender_choice = gchoice,
                !.error = [kind |-> perr, detail |-> <<>>]]
        ELSE [base EXCEPT !.status = "ok", !.seed_manager = sm2,
                !._gender_choice = gchoice, !._plan_choice = pchoice]

\* CohortGenerator(entity_factory, constraints, seed, progress_callback)
Construct(g, constraints, seed, progress_callback) ==
    /\ thread = 0
    /\ gen[g].status = "none"
    /\ gen' = [gen EXCEPT ![g] = Constructed(constraints, seed, progress_callback)]
    /\ UNCHANGED <<run, obs, thread>>
    /\ UNCHANGED notCohort

\* cohort.py:144, the call generator.generate(count): creates the generator
\* object; none of the body runs before the first next()
Generate(g, count, maxRuns) ==
    /\ thread = 0
    /\ gen[g].status = "ok"
    /\ run[g].n < maxRuns
    /\ run' = [run EXCEPT ![g] =
            [NoRun EXCEPT !.n = run[g].n + 1, !.pc = "created", !.count = count]]
    /\ obs' = [obs EXCEPT ![g] =
            [NoObs EXCEPT !.calls = Append(obs[g].calls, <<>>)]]
    /\ UNCHANGED <<gen, thread>>
    /\ UNCHANGED notCohort

\* cohort.py:153-159, the first next(): the frame up to the for statement.
\* WeightedChoice(...) receives get_seed("age") and may raise; the raise is
\* outside the try block and leaves the generator
First(g) ==
    /\ thread = 0
    /\ run[g].pc = "created"
    /\ LET akey == Key("age")
           sm == gen[g].seed_manager
           dist == gen[g].constraints.age_distribution
           err == WeightedChoiceError(dist)
       IN  /\ gen' = [gen EXCEPT ![g].seed_manager = get_seed_post(sm, akey)]
           /\ IF err # ""
              THEN /\ run' = [run EXCEPT ![g].pc = "raised",
                                ![g].progress = NewProgress(run[g].count),
                                ![g].error = [kind |-> err, detail |-> <<>>]]
                   /\ thread' = 0
              ELSE /\ run' = [run EXCEPT ![g].pc = "top",
                                ![g].progress = NewProgress(run[g].count),
                                ![g].age_choice =
                                    NewWeightedChoice(dist, get_seed(sm, akey))]
                   /\ thread' = g
    /\ UNCHANGED obs
    /\ UNCHANGED notCohort

\* cohort.py:181
OnSuccess(p) == [p EXCEPT !.completed = @ + 1]

\* a failure that is logged but not counted
OnFailure_Uncounted(p) == p

\* cohort.py:184-186
OnFailure(p) == [p EXCEPT !.failed = @ + 1]

\* the report taken on the 0-based index
BoundaryDue_ZeroBased(progress_callback, i) ==
    progress_callback /\ i % ReportEvery = 0

\* cohort.py:189
BoundaryDue(progress_callback, i) ==
    progress_callback /\ (i + 1) % ReportEvery = 0

\* cohort.py:193
FinalDue(progress_callback) == progress_callback

\* cohort.py:190, 194: self.progress_callback(progress)
Snapshot(kind, i, p) == [kind |-> kind, i |-> i, progress |-> p]

\* the entity seed keyed by the index less the failures so far
EntitySeedKey_SkipFailed(r) == FKey("entity", r.i - r.progress.failed)

\* the entity seed keyed by the number of entities completed so far
EntitySeedKey_ByCompleted(r) == FKey("entity", r.progress.completed)

\* cohort.py:170: the key of the seed of the entity at the frame's index
EntitySeedKey(r) == FKey("entity", r.i)

\* a report that swallows what the callback raises
AfterReport_Swallowed(r, due, returns) ==
    [r EXCEPT !.pc = "top", !.i = @ + 1]

\* cohort.py:188-190 followed by the for statement fetching the next index:
\* the frame after the report for index r.i; the callback returns when
\* returns = TRUE and raises otherwise
AfterReport(r, due, returns) ==
    IF due /\ ~returns
    THEN [r EXCEPT !.pc = "raised",
            !.error = [kind |-> "callback raised", detail |-> <<>>]]
    ELSE [r EXCEPT !.pc = "top", !.i = @ + 1]

\* cohort.py:161-190, one iteration of the loop from the for statement to
\* the yield (success) or through the except clause and the report
\* (failure).  factoryReturns, callbackReturns: the outcome of the
\* caller-supplied callables when they are invoked
Body(g, factoryReturns, callbackReturns) ==
    /\ thread = g
    /\ run[g].pc = "top"
    /\ run[g].i < run[g].count
    /\ LET r == run[g]
           i == r.i
           gender == select(gen[g]._gender_choice)
           plan_type == select(gen[g]._plan_choice)
           age_band == select(r.age_choice)
           known == KnownAgeBand(age_band)
           ekey == EntitySeedKey(r)
           sm == gen[g].seed_manager
           kwargs == [seed |-> get_seed(sm, ekey),
                      gender |-> gender,
                      plan_type |-> plan_type,
                      min_age |-> _select_age_band(age_band)[1],
                      max_age |-> _select_age_band(age_band)[2]]
           success == known /\ factoryReturns
           due == BoundaryDue(gen[g].progress_callback, i)
           drawn == [r EXCEPT !.age_choice = select_post(@)]
           failed == [drawn EXCEPT !.progress = OnFailure(@)]
           o == [obs[g] EXCEPT
                    !.processed = @ + 1,
                    !.steps = IF known
                        THEN <<"gender", "plan", "age", "lookup", "seed", "factory">>
                        ELSE <<"gender", "plan", "age", "lookup">>,
                    !.calls = IF known
                        THEN [@ EXCEPT ![r.n] = Append(@, [i |-> i, kwargs |-> kwargs])]
                        ELSE @,
                    !.lookup_failed = IF known THEN @ ELSE @ + 1,
                    !.factory_failed = IF known /\ ~factoryReturns THEN @ + 1 ELSE @]
       IN  /\ gen' = [gen EXCEPT
                ![g]._gender_choice = select_post(@),
                ![g]._plan_choice = select_post(@),
                ![g].seed_manager = IF known THEN get_seed_post(@, ekey) ELSE @]
           /\ IF success
              THEN /\ run' = [run EXCEPT ![g] =
                            [drawn EXCEPT !.progress = OnSuccess(@), !.pc = "yielded"]]
                   /\ obs' = [obs EXCEPT ![g] = [o EXCEPT !.yielded = @ + 1]]
                   /\ thread' = 0
              ELSE /\ run' = [run EXCEPT ![g] = AfterReport(failed, due, callbackReturns)]
                   /\ obs' = [obs EXCEPT ![g] =
                        IF due
                        THEN [o EXCEPT !.callbacks =
                                Append(@, Snapshot("boundary", i, failed.progress)),
                              !.callback_raised = ~callbackReturns]
                        ELSE o]
                   /\ thread' = IF due /\ ~callbackReturns THEN 0 ELSE g
    /\ UNCHANGED notCohort

\* the consumer's next() on a generator suspended at the yield of
\* cohort.py:182: the frame resumes with the report of cohort.py:188-190
Resume(g, callbackReturns) ==
    /\ thread = 0
    /\ run[g].pc = "yielded"
    /\ LET r == run[g]
           due == BoundaryDue(gen[g].progress_callback, r.i)
       IN  /\ run' = [run EXCEPT ![g] = AfterReport(r, due, callbackReturns)]
           /\ obs' = [obs EXCEPT ![g] =
                IF due
                THEN [@ EXCEPT !.callbacks =
                        Append(@, Snapshot("boundary", r.i, r.progress)),
                      !.callback_raised = ~callbackReturns]
                ELSE @]
           /\ thread' = IF due /\ ~callbackReturns THEN 0 ELSE g
    /\ UNCHANGED gen
    /\ UNCHANGED notCohort

\* cohort.py:161, 192-194: the range is exhausted, the final report is made
\* and the generator returns (StopIteration)
Finish(g, callbackReturns) ==
    /\ thread = g
    /\ run[g].pc = "top"
    /\ ~(run[g].i < run[g].count)
    /\ LET r == run[g]
           due == FinalDue(gen[g].progress_callback)
       IN  /\ run' = [run EXCEPT ![g] =
                IF due /\ ~callbackReturns
                THEN [r EXCEPT !.pc = "raised",
                        !.error = [kind |-> "callback raised", detail |-> <<>>]]
                ELSE [r EXCEPT !.pc = "done"]]
           /\ obs' = [obs EXCEPT ![g] =
                IF due
                THEN [@ EXCEPT !.callbacks =
                        Append(@, Snapshot("final", r.i, r.progress)),
                      !.callback_raised = ~callbackReturns]
                ELSE @]
           /\ thread' = 0
    /\ UNCHANGED gen
    /\ UNCHANGED notCohort

\* a close() whose GeneratorExit the except clause takes for a failure of
\* the entity, followed by the report
Close_CaughtAsFailure(g) ==
    /\ thread = 0
    /\ run[g].pc \in {"created", "yielded"}
    /\ LET due == run[g].pc = "yielded"
                    /\ BoundaryDue(gen[g].progress_callback, run[g].i)
       IN  /\ run' = [run EXCEPT ![g].pc = "closed",
                                 ![g].progress = OnFailure(@)]
           /\ obs' = [obs EXCEPT ![g].callbacks =
                    IF due
                    THEN Append(@, Snapshot("boundary", run[g].i,
                                            OnFailure(run[g].progress)))
                    ELSE @]
    /\ UNCHANGED <<gen, thread>>
    /\ UNCHANGED notCohort

\* the consumer abandons the generator object: close(), or finalization of
\* an unfinished generator.  Before the first next() the frame never runs;
\* at the yield of cohort.py:182 GeneratorExit is raised inside the try
\* block, is not an Exception (cohort.py:184) and leaves the generator
Close(g) ==
    /\ thread = 0
    /\ run[g].pc \in {"created", "yielded"}
    /\ run' = [run EXCEPT ![g].pc = "closed"]
    /\ UNCHANGED <<gen, obs, thread>>
    /\ UNCHANGED notCohort

(******************* stand-alone SeedManager instances ********************)
SeedInit ==
    /\ managers = <<>>
    /\ iters = <<>>
    /\ returned = None

\* history: get_seed on an instance with this master seed returned value
Returning(hist, master_seed, key, value) ==
    Some([master_seed |-> master_seed, key |-> key, value |-> value])

\* SeedManager(master_seed), seed_manager.py:26-33
NewManager(master_seed, maxManagers) ==
    /\ Len(managers) < maxManagers
    /\ managers' = Append(managers,
            [sm |-> NewSeedManager(master_seed), parent |-> 0, namespace |-> ""])
    /\ UNCHANGED <<iters, returned>>
    /\ UNCHANGED notSeed

\* managers[m].get_seed(key), seed_manager.py:35-53
GetSeed(m, key) ==
    /\ m \in 1..Len(managers)
    /\ managers' = [managers EXCEPT ![m].sm = get_seed_post(@, key)]
    /\ returned' = Returning(returned, managers[m].sm.master_seed, key,
                        get_seed(managers[m].sm, key))
    /\ UNCHANGED iters
    /\ UNCHANGED notSeed

\* managers[m].get_seeds(prefix, count), seed_manager.py:55: creates the
\* generator object; none of the body runs before the first next()
GetSeeds(m, prefix, count) ==
    /\ m \in 1..Len(managers)
    /\ iters' = Some([m |-> m, prefix |-> prefix, count |-> count, i |-> 0,
                      pc |-> "live", out |-> <<>>])
    /\ UNCHANGED <<managers, returned>>
    /\ UNCHANGED notSeed

\* next() on the generator object, seed_manager.py:65-66: yields
\* get_seed(f"{prefix}_{i}") or, when the range is exhausted, returns
GetSeedsNext ==
    /\ ~IsNone(iters)
    /\ iters[1].pc = "live"
    /\ LET it == 1
           f == iters[it]
           sm == managers[f.m].sm
           key == FKey(f.prefix, f.i)
       IN  IF f.i < f.count
           THEN /\ iters' = [iters EXCEPT ![it].i = @ + 1,
                                ![it].out = Append(@, get_seed(sm, key))]
                /\ managers' = [managers EXCEPT ![f.m].sm = get_seed_post(@, key)]
                /\ returned' = Returning(returned, sm.master_seed, key,
                                    get_seed(sm, key))
           ELSE /\ iters' = [iters EXCEPT ![it].pc = "done"]
                /\ UNCHANGED <<managers, returned>>
    /\ UNCHANGED notSeed

\* a child manager that is handed the memo of its parent
ChildManager_SharedCache(m, namespace, maxManagers) ==
    /\ m \in 1..Len(managers)
    /\ Len(managers) < maxManagers
    /\ LET sm == managers[m].sm
           key == NsKey(namespace)
           child_seed == get_seed(sm, key)
       IN  /\ managers' = Append([managers EXCEPT ![m].sm = get_seed_post(@, key)],
                [sm |-> [master_seed |-> child_seed,
                         cache |-> get_seed_post(sm, key).cache],
                 parent |-> m, namespace |-> namespace])
           /\ returned' = Returning(returned, sm.master_seed, key, child_seed)
    /\ UNCHANGED iters
    /\ UNCHANGED notSeed

\* managers[m].child_manager(namespace), seed_manager.py:68-80
ChildManager(m, namespace, maxManagers) ==
    /\ m \in 1..Len(managers)
    /\ Len(managers) < maxManagers
    /\ LET sm == managers[m].sm
           key == NsKey(namespace)
           child_seed == get_seed(sm, key)
       IN  /\ managers' = Append([managers EXCEPT ![m].sm = get_seed_post(@, key)],
                [sm |-> NewSeedManager(child_seed), parent |-> m,
                 namespace |-> namespace])
           /\ returned' = Returning(returned, sm.master_seed, key, child_seed)
    /\ UNCHANGED iters
    /\ UNCHANGED notSeed

\* managers[m].reset(), seed_manager.py:82-84
Reset(m) ==
    /\ m \in 1..Len(managers)
    /\ managers' = [managers EXCEPT ![m].sm = reset(@)]
    /\ UNCHANGED <<iters, returned>>
    /\ UNCHANGED notSeed

(*********************** stand-alone WeightedChoice ***********************)
ChoiceInit ==
    choice = [status |-> "none", error |-> "", choices |-> <<>>,
              wc |-> NoChoice, last |-> None]

\* WeightedChoice(choices, seed), distributions.py:23-45
NewChoice(choices, seed) ==
    /\ choice' =
        IF WeightedChoiceError(choices) # ""
        THEN [status |-> "error", error |-> WeightedChoiceError(choices),
              choices |-> choices, wc |-> NoChoice, last |-> None]
        ELSE [status |-> "ok", error |-> "", choices |-> choices,
              wc |-> NewWeightedChoice(choices, seed), last |-> None]
    /\ UNCHANGED <<ages, normal>>
    /\ UNCHANGED notDist

\* choice.select(), distributions.py:47-49
Select(maxDraws) ==
    /\ choice.status = "ok"
    /\ choice.wc.pos < maxDraws
    /\ choice' = [choice EXCEPT !.last = Some(select(choice.wc)),
                                !.wc = select_post(@)]
    /\ UNCHANGED <<ages, normal>>
    /\ UNCHANGED notDist

(*********************** stand-alone AgeDistribution **********************)
AgeInit ==
    ages = [status |-> "none", error |-> "", d |-> NoAgeDistribution,
            band |-> None, last |-> None]

\* AgeDistribution(min_age, max_age, commercial_weight, medicare_weight,
\* pediatric_weight, seed), distributions.py:108-149
NewAges(min_age, max_age, weights, seed) ==
    /\ ages' =
        IF AgeDistributionError(min_age, max_age, weights) # ""
        THEN [status |-> "error",
              error |-> AgeDistributionError(min_age, max_age, weights),
              d |-> [NoAgeDistribution EXCEPT !.min_age = min_age,
                                              !.max_age = max_age],
              band |-> None, last |-> None]
        ELSE [status |-> "ok", error |-> "",
              d |-> NewAgeDistribution(min_age, max_age, weights, seed),
              band |-> None, last |-> None]
    /\ UNCHANGED <<choice, normal>>
    /\ UNCHANGED notDist

\* ages.sample(), distributions.py:151-155
SampleAge(maxDraws) ==
    /\ ages.status = "ok"
    /\ ages.d.pos < maxDraws
    /\ ages' = [ages EXCEPT !.band = Some(sample_band(ages.d)),
                            !.last = Some(sample_age(ages.d)),
                            !.d = sample_age_post(@)]
    /\ UNCHANGED <<choice, normal>>
    /\ UNCHANGED notDist

(********************* stand-alone NormalDistribution *********************)
\* draws counts the calls of gauss(), samples the calls of sample(); g is
\* the latest value of gauss(), last the latest value returned
NormalInit ==
    normal = [status |-> "none", min_val |-> None, max_val |-> None,
              draws |-> 0, samples |-> 0, g |-> None, last |-> None]

\* NormalDistribution(mean, std_dev, min_val, max_val, seed),
\* distributions.py:81-93
NewNormal(min_val, max_val) ==
    /\ normal' = [status |-> "ok", min_val |-> min_val, max_val |-> max_val,
                  draws |-> 0, samples |-> 0, g |-> None, last |-> None]
    /\ UNCHANGED <<choice, ages>>
    /\ UNCHANGED notDist

\* normal.sample(), distributions.py:95-102, when gauss(mean, std_dev)
\* gives g
SampleNormal(g, maxDraws) ==
    /\ normal.status = "ok"
    /\ normal.samples < maxDraws
    /\ normal' = [normal EXCEPT
            !.draws = @ + 1,
            !.samples = @ + 1,
            !.g = Some(g),
            !.last = Some(sample_normal(normal.min_val, normal.max_val, g))]
    /\ UNCHANGED <<choice, ages>>
    /\ UNCHANGED notDist

DistInit == ChoiceInit /\ AgeInit /\ NormalInit

(************************* inputs of the cohort ***************************)
\* {"M": 0.3, "F": 0.3}, tests/test_generation.py:242
GenderLow == << <<"M", 3840>>, <<"F", 3840>> >>

\* {"M": 1.5, "F": -0.5}
GenderNegative == << <<"M", 19200>>, <<"F", -6400>> >>

\* {"0-17": 0.5}, tests/test_generation.py:251
AgeLow == << <<"0-17", 6400>> >>

\* {"0-17": 1.5, "18-34": -0.5}
AgeNegative == << <<"0-17", 19200>>, <<"18-34", -6400>> >>

\* {"0-17": 0.5, "senior": 0.5}
AgeUnknown == << <<"0-17", 6400>>, <<"senior", 6400>> >>

\* {"18-34": 0.5, "65+": 0.5078125}: off by 1/128, inside the tolerance
AgeNear == << <<"18-34", 6400>>, <<"65+", 6500>> >>

\* {"PPO": 0.25}
PlanLow == << <<"PPO", 3200>> >>

\* {"PPO": 1.25, "HMO": -0.25}
PlanNegative == << <<"PPO", 16000>>, <<"HMO", -3200>> >>

\* {"CA": 0.5, "TX": 0.5}
StateEven == << <<"CA", 6400>>, <<"TX", 6400>> >>

\* {"CA": 0.5}
StateLow == << <<"CA", 6400>> >>

ConstraintValues ==
    [gender_distribution : {DefaultGender, GenderLow, GenderNegative},
     age_distribution : {DefaultAge, AgeLow, AgeNegative, AgeUnknown, AgeNear},
     plan_distribution : {DefaultPlan, PlanLow, PlanNegative},
     state_distribution : {None, Some(StateEven), Some(StateLow)}]

ConstraintArgs == {None} \cup {Some(c) : c \in ConstraintValues}

SeedArgs == {None, Some(0), Some(42), Some(7)}

Counts == 0..MaxCount

(***************** Spec: one generator, every input ***********************)
Next ==
    \/ \E c \in ConstraintArgs, s \in {None, Some(7)}, cb \in BOOLEAN :
            Construct(1, c, s, cb)
    \/ \E count \in Counts : Generate(1, count, MaxRuns)
    \/ First(1)
    \/ \E f \in BOOLEAN, cb \in BOOLEAN : Body(1, f, cb)
    \/ \E cb \in BOOLEAN : Resume(1, cb)
    \/ \E cb \in BOOLEAN : Finish(1, cb)

Init == CohortInit /\ SeedInit /\ DistInit

Spec == Init /\ [][Next]_vars

(************* SpecPair: two generators, one run each *********************)
PairConstraintArgs ==
    {None, Some([DefaultConstraints EXCEPT !.age_distribution = AgeUnknown])}

NextPair ==
    \/ \E g \in Generators, c \in PairConstraintArgs, s \in SeedArgs :
            Construct(g, c, s, FALSE)
    \/ \E g \in Generators, count \in Counts : Generate(g, count, 1)
    \/ \E g \in Generators : First(g)
    \/ \E g \in Generators, f \in BOOLEAN : Body(g, f, TRUE)
    \/ \E g \in Generators : Resume(g, TRUE)
    \/ \E g \in Generators : Finish(g, TRUE)

SpecPair == Init /\ [][NextPair]_vars

(********* SpecCadence: one generator, runs across report boundaries ******)
CadenceCounts ==
    {0, ReportEvery - 1, ReportEvery, ReportEvery + 1,
     2 * ReportEvery, 2 * ReportEvery + CadenceExtra}

NearBoundary(i) == (i + 1) % ReportEvery <= FailureWindow

NextCadence ==
    \/ \E cb \in BOOLEAN : Construct(1, None, Some(42), cb)
    \/ \E count \in CadenceCounts : Generate(1, count, 1)
    \/ First(1)
    \/ \E f \in BOOLEAN, cb \in BOOLEAN :
            (f \/ NearBoundary(run[1].i)) /\ Body(1, f, cb)
    \/ \E cb \in BOOLEAN : Resume(1, cb)
    \/ \E cb \in BOOLEAN : Finish(1, cb)
    \/ Close(1)

SpecCadence == Init /\ [][NextCadence]_vars

(************ SpecSeed: SeedManager instances used directly ***************)
\* the SeedManager instances a behaviour of SpecSeed may create
ManagerIds == {1, 2, 3}

MaxManagers == Cardinality(ManagerIds)

MasterSeeds == {42}

Prefixes == {"member"}

Namespaces == {"claims"}

SeedKeys == {FKey("member", 0)}

NextSeed ==
    \/ \E master_seed \in MasterSeeds : NewManager(master_seed, MaxManagers)
    \/ \E m \in ManagerIds, key \in SeedKeys : GetSeed(m, key)
    \/ \E m \in ManagerIds, prefix \in Prefixes, count \in 0..MaxSeeds :
            GetSeeds(m, prefix, count)
    \/ GetSeedsNext
    \/ \E m \in ManagerIds, namespace \in Namespaces :
            ChildManager(m, namespace, MaxManagers)
    \/ \E m \in ManagerIds : Reset(m)

SpecSeed == Init /\ [][NextSeed]_vars

(************ SpecIter: get_seeds() consumed on two instances *************)
IterManagers == {1, 2}

IterMasterSeeds == {42, 7}

NextIter ==
    \/ \E master_seed \in IterMasterSeeds :
            NewManager(master_seed, Cardinality(IterManagers))
    \/ \E m \in IterManagers, key \in SeedKeys : GetSeed(m, key)
    \/ \E m \in IterManagers, prefix \in Prefixes, count \in 0..MaxIter :
            GetSeeds(m, prefix, count)
    \/ GetSeedsNext
    \/ \E m \in IterManagers : Reset(m)

SpecIter == Init /\ [][NextIter]_vars

(********* SpecChild: two root instances and their child managers *********)
ChildManagers == {1, 2, 3, 4}

\* the roots are the first instances created
RootManagers == {1, 2}

ChildNamespaces == {"claims", "members"}

NextChild ==
    \/ \E master_seed \in IterMasterSeeds :
            NewManager(master_seed, Cardinality(RootManagers))
    \/ \E m \in ChildManagers, key \in SeedKeys : GetSeed(m, key)
    \/ \E m \in ChildManagers, namespace \in ChildNamespaces :
            ChildManager(m, namespace, Cardinality(ChildManagers))
    \/ \E m \in ChildManagers : Reset(m)

SpecChild == Init /\ [][NextChild]_vars

(************* SpecChoice: a WeightedChoice used directly *****************)
ChoiceLabels == <<"A", "B", "C", "D", "E">>

ChoiceWeights == {-1, 0, 1, 3}

\* the sequences of up to MaxChoices (value, weight) pairs
ChoiceArgs ==
    UNION {{[n \in 1..len |-> <<ChoiceLabels[n], ws[n]>>] :
                ws \in [1..len -> ChoiceWeights]} : len \in 0..MaxChoices}

\* 189 and 216 are the seeds whose first draw is the smallest and the
\* largest value of random()
ChoiceSeeds == {42, 7, 189, 216}

NextChoice ==
    \/ \E choices \in ChoiceArgs, seed \in ChoiceSeeds : NewChoice(choices, seed)
    \/ Select(MaxDraws)

SpecChoice == Init /\ [][NextChoice]_vars

(************* SpecAge: an AgeDistribution used directly ******************)
MinAges == {-5, 0, 10, 18, 65, 70, 101}

MaxAges == {-1, 17, 20, 64, 65, 100, 120}

BandWeightArgs ==
    {DefaultBandWeights,
     [DefaultBandWeights EXCEPT !.commercial_weight = 0],
     [DefaultBandWeights EXCEPT !.pediatric_weight = -1],
     [commercial_weight |-> 0, medicare_weight |-> 0, pediatric_weight |-> 0]}

NextAge ==
    \/ \E min_age \in MinAges, max_age \in MaxAges,
          weights \in BandWeightArgs, seed \in ChoiceSeeds :
            NewAges(min_age, max_age, weights, seed)
    \/ SampleAge(MaxDraws)

SpecAge == Init /\ [][NextAge]_vars

(************ SpecNormal: a NormalDistribution used directly **************)
\* values of min_val and max_val: absent, 0, 40, 60
BoundArgs == {None, Some(0), Some(40), Some(60)}

\* values of gauss(50, 10) around and between the bounds
GaussValues == {-5, 0, 39, 40, 41, 50, 59, 60, 61}

NextNormal ==
    \/ \E min_val \in BoundArgs, max_val \in BoundArgs : NewNormal(min_val, max_val)
    \/ \E g \in GaussValues : SampleNormal(g, MaxDraws)

SpecNormal == Init /\ [][NextNormal]_vars

(**************************** properties **********************************)
Started(g) == run[g].pc \in {"top", "yielded", "done", "raised"}

RecognizedBands == {"0-17", "18-34", "35-54", "55-64", "65+"}

\* C1 as stated: a factory failure never aborts the run, and a run consumed
\* to exhaustion in which the factory failed at f indices has yielded
\* count - f entities and ends with completed = count - f, failed = f and
\* is_complete.
C1_FactoryFailuresOnly ==
    \A g \in Generators :
        run[g].pc = "done" =>
            /\ obs[g].processed = run[g].count
            /\ obs[g].yielded = run[g].count - obs[g].factory_failed
            /\ run[g].progress.completed = run[g].count - obs[g].factory_failed
            /\ run[g].progress.failed = obs[g].factory_failed
            /\ is_complete(run[g].progress)

\* C1 amended: every index is processed whatever the factory does, and a
\* run consumed to exhaustion in which the factory failed at f indices and
\* the age band lookup failed at u indices has yielded count - f - u
\* entities and ends with completed = count - f - u, failed = f + u and
\* is_complete.
C1_PartialFailureIsolation ==
    \A g \in Generators :
        run[g].pc = "done" =>
            /\ obs[g].processed = run[g].count
            /\ obs[g].yielded =
                run[g].count - obs[g].factory_failed - obs[g].lookup_failed
            /\ run[g].progress.completed =
                run[g].count - obs[g].factory_failed - obs[g].lookup_failed
            /\ run[g].progress.failed =
                obs[g].factory_failed + obs[g].lookup_failed
            /\ run[g].progress.completed + run[g].progress.failed
                >= run[g].progress.total

\* a run consumed to exhaustion in which the factory failed and a later
\* index was yielded
C1_Witness ==
    \E g \in Generators :
        /\ run[g].pc = "done"
        /\ run[g].count >= 2
        /\ obs[g].factory_failed >= 1
        /\ obs[g].yielded >= 1
        /\ run[g].progress.failed >= 1

\* C2: in every state of a run the counters account for the processed
\* indices: completed = entities yielded, failed = indices skipped,
\* completed + failed = indices processed <= total, total is the requested
\* count, and for count > 0 is_complete holds exactly when the last index
\* has been processed.
C2_ProgressAccounting ==
    \A g \in Generators :
        Started(g) =>
            LET p == run[g].progress IN
            /\ p.completed = obs[g].yielded
            /\ p.failed = obs[g].factory_failed + obs[g].lookup_failed
            /\ p.failed = obs[g].processed - obs[g].yielded
            /\ p.completed + p.failed = obs[g].processed
            /\ p.completed + p.failed <= p.total
            /\ p.total = run[g].count
            /\ (run[g].count > 0 =>
                    (is_complete(p) <=> obs[g].processed = run[g].count))

\* a run suspended at a yield with a skipped and a yielded index behind it
\* and indices still to come
C2_Witness ==
    \E g \in Generators :
        /\ run[g].pc = "yielded"
        /\ run[g].progress.failed >= 1
        /\ run[g].progress.completed >= 1
        /\ obs[g].processed < run[g].count

\* C3 as stated: with a factory that never fails, a run consumed to
\* exhaustion has yielded exactly count entities and failed is 0, whatever
\* constraints the constructor accepted.
C3_AlwaysCount ==
    \A g \in Generators :
        (run[g].pc = "done" /\ obs[g].factory_failed = 0) =>
            /\ obs[g].yielded = run[g].count
            /\ run[g].progress.failed = 0

\* C3 amended: with a factory that never fails, a run consumed to
\* exhaustion has yielded count - u entities and failed is u, where u is the
\* number of indices whose drawn age band is unrecognized; u is 0, and
\* exactly count entities are yielded, when every age band label of the
\* constraints is a recognized one.
C3_CountWhenFactoryNeverFails ==
    \A g \in Generators :
        (run[g].pc = "done" /\ obs[g].factory_failed = 0) =>
            LET dist == gen[g].constraints.age_distribution IN
            /\ obs[g].yielded = run[g].count - obs[g].lookup_failed
            /\ run[g].progress.failed = obs[g].lookup_failed
            /\ (\A n \in 1..Len(dist) : dist[n][1] \in RecognizedBands) =>
                    /\ obs[g].yielded = run[g].count
                    /\ run[g].progress.failed = 0

\* a run of at least two indices consumed to exhaustion without a factory
\* failure, under the default constraints
C3_Witness ==
    \E g \in Generators :
        /\ run[g].pc = "done"
        /\ run[g].count >= 2
        /\ obs[g].factory_failed = 0
        /\ obs[g].yielded = run[g].count
        /\ gen[g].constraints = DefaultConstraints

\* C4: two generators built with the same seed and the same constraints,
\* each asked once for the same count, make the same factory calls: the
\* k-th call of one has the index and the keyword arguments (seed, gender,
\* plan_type, min_age, max_age) of the k-th call of the other.
C4_ReproducibleAcrossInstances ==
    \A g \in Generators, h \in Generators :
        (/\ gen[g].status = "ok" /\ gen[h].status = "ok"
         /\ gen[g].seed = gen[h].seed
         /\ gen[g].constraints = gen[h].constraints
         /\ run[g].n = 1 /\ run[h].n = 1
         /\ run[g].count = run[h].count) =>
            \A k \in 1..Len(obs[g].calls[1]) :
                k <= Len(obs[h].calls[1]) =>
                    obs[g].calls[1][k] = obs[h].calls[1][k]

\* two distinct generators with the same seed and constraints that have
\* both run to exhaustion with different factory outcomes
C4_Witness ==
    /\ gen[1].status = "ok" /\ gen[2].status = "ok"
    /\ gen[1].seed = gen[2].seed
    /\ gen[1].constraints = gen[2].constraints
    /\ run[1].pc = "done" /\ run[2].pc = "done"
    /\ run[1].count = run[2].count
    /\ Len(obs[1].calls[1]) >= 2
    /\ obs[1].factory_failed # obs[2].factory_failed

\* C5: two successive generate() calls on one instance pass the same
\* keyword arguments to the factory at every index both have reached.
C5_SuccessiveCallsRepeat ==
    \A g \in Generators :
        Len(obs[g].calls) >= 2 =>
            \A a \in 1..Len(obs[g].calls[1]), b \in 1..Len(obs[g].calls[2]) :
                obs[g].calls[1][a].i = obs[g].calls[2][b].i =>
                    obs[g].calls[1][a].kwargs = obs[g].calls[2][b].kwargs

\* C6: with a progress callback, the callback is invoked after each index
\* i with (i + 1) a multiple of 100, when completed + failed = i + 1, and
\* once more after the loop, when completed + failed = count: a run consumed
\* to exhaustion has made count \div 100 + 1 invocations; without a callback
\* there is none.
C6_ProgressCadence ==
    \A g \in Generators :
        LET cbs == obs[g].callbacks
            boundaries == run[g].count \div ReportEvery
            done(n) == cbs[n].progress.completed + cbs[n].progress.failed
        IN
        /\ ~gen[g].progress_callback => Len(cbs) = 0
        /\ \A n \in 1..Len(cbs) :
                cbs[n].kind = "boundary" =>
                    /\ cbs[n].i + 1 = n * ReportEvery
                    /\ done(n) = cbs[n].i + 1
        /\ (gen[g].progress_callback /\ Started(g)
                /\ run[g].pc # "raised") =>
                Len(cbs) >= (IF run[g].pc = "yielded"
                             THEN run[g].i ELSE obs[g].processed) \div ReportEvery
        /\ (gen[g].progress_callback /\ run[g].pc = "done") =>
                /\ Len(cbs) = boundaries + 1
                /\ \A n \in 1..boundaries : cbs[n].kind = "boundary"
                /\ cbs[boundaries + 1].kind = "final"
                /\ done(boundaries + 1) = run[g].count

\* a run past the second boundary consumed to exhaustion: three reports,
\* with a failed index behind them
C6_Witness ==
    \E g \in Generators :
        /\ gen[g].progress_callback
        /\ run[g].pc = "done"
        /\ run[g].count > 2 * ReportEvery
        /\ Len(obs[g].callbacks) = 3
        /\ obs[g].factory_failed >= 1

Built(g) == gen[g].status \in {"ok", "error"}

\* the weights of dist sum to 1.0 within 0.01
NearOne(dist) ==
    /\ DistTotal(dist) >= One - Tolerance
    /\ DistTotal(dist) <= One + Tolerance

HasNegative(dist) == \E n \in 1..Len(dist) : dist[n][2] < 0

\* the violations of c, one per offending distribution, gender first,
\* then age, then plan
OffendingOf(c) ==
    (IF NearOne(c.gender_distribution) THEN <<>>
     ELSE << <<"gender", DistTotal(c.gender_distribution)>> >>)
    \o (IF NearOne(c.age_distribution) THEN <<>>
        ELSE << <<"age", DistTotal(c.age_distribution)>> >>)
    \o (IF NearOne(c.plan_distribution) THEN <<>>
        ELSE << <<"plan", DistTotal(c.plan_distribution)>> >>)

\* when construction raised because of violations, the error carries all of
\* them and nothing was derived or built before the raise
CarriesAllViolations(g) ==
    Len(OffendingOf(gen[g].constraints)) > 0 =>
        /\ gen[g].error.kind = "Invalid constraints"
        /\ gen[g].error.detail = OffendingOf(gen[g].constraints)
        /\ DOMAIN gen[g].seed_manager.cache = {}
        /\ gen[g]._gender_choice = NoChoice
        /\ gen[g]._plan_choice = NoChoice

\* C7 as stated: construction fails exactly when the weights of the gender,
\* age or plan distribution sum to something further than 0.01 from 1.0,
\* and the error then carries one violation per offending distribution, in
\* the order gender, age, plan, raised before any seed is derived or any
\* weighted choice is built.
C7_FailsExactlyOnSums ==
    \A g \in Generators :
        Built(g) =>
            /\ gen[g].status = "error"
                    <=> Len(OffendingOf(gen[g].constraints)) > 0
            /\ CarriesAllViolations(g)

\* C7 amended: construction fails exactly when one of those sums is off,
\* or the gender or plan distribution contains a negative weight; when a
\* sum is off the error carries one violation per offending distribution,
\* in the order gender, age, plan, raised before any seed is derived or any
\* weighted choice is built.
C7_ConstructionValidation ==
    \A g \in Generators :
        Built(g) =>
            /\ gen[g].status = "error"
                    <=> \/ Len(OffendingOf(gen[g].constraints)) > 0
                        \/ HasNegative(gen[g].constraints.gender_distribution)
                        \/ HasNegative(gen[g].constraints.plan_distribution)
            /\ CarriesAllViolations(g)

\* a construction rejected with the three violations together
C7_Witness ==
    \E g \in Generators :
        /\ gen[g].status = "error"
        /\ Len(gen[g].error.detail) = 3
        /\ gen[g].error.detail[1][1] = "gender"
        /\ gen[g].error.detail[3][1] = "plan"

\* C8: whenever construction succeeded, no generate() call raises an
\* argument-validation error: malformed constraints are always rejected by
\* the constructor.
C8_ArgumentErrorsAtConstruction ==
    \A g \in Generators :
        gen[g].status = "ok" =>
            ~(/\ run[g].pc = "raised"
              /\ run[g].error.kind \in {"choices cannot be empty",
                                        "weights cannot be negative",
                                        "total weight cannot be zero"})

\* C9: every declared distribution of a constructed generator, the state
\* distribution included when one is supplied, sums to 1.0 within 0.01.
C9_DeclaredDistributionsSumToOne ==
    \A g \in Generators :
        gen[g].status = "ok" =>
            LET c == gen[g].constraints IN
            /\ NearOne(c.gender_distribution)
            /\ NearOne(c.age_distribution)
            /\ NearOne(c.plan_distribution)
            /\ (~IsNone(c.state_distribution) => NearOne(c.state_distribution[1]))

\* the keys SpecSeed can ask for
AllSeedKeys ==
    SeedKeys \cup {NsKey(ns) : ns \in Namespaces}
        \cup {FKey(p, i) : p \in Prefixes, i \in 0..MaxSeeds}

\* C10: for a fixed master seed get_seed(key) depends on key only: every
\* value returned, every cached entry and every value an instance would
\* return now equals what a fresh instance with that master seed derives,
\* so instances sharing a master seed agree on every key whatever calls
\* and resets came before.
C10_GetSeedIsPure ==
    /\ \A m \in 1..Len(managers) :
            \A key \in DOMAIN managers[m].sm.cache :
                managers[m].sm.cache[key] =
                    get_seed(NewSeedManager(managers[m].sm.master_seed), key)
    /\ ~IsNone(returned) =>
            returned[1].value =
                get_seed(NewSeedManager(returned[1].master_seed), returned[1].key)
    /\ \A m \in 1..Len(managers), n \in 1..Len(managers) :
            managers[m].sm.master_seed = managers[n].sm.master_seed =>
                \A key \in AllSeedKeys :
                    get_seed(managers[m].sm, key) = get_seed(managers[n].sm, key)

\* two instances with one master seed, a key cached in the first only, and
\* that key just returned
C10_Witness ==
    \E m \in 1..Len(managers), n \in 1..Len(managers) :
        /\ m # n
        /\ managers[m].sm.master_seed = managers[n].sm.master_seed
        /\ ~IsNone(returned)
        /\ returned[1].master_seed = managers[m].sm.master_seed
        /\ returned[1].key \in DOMAIN managers[m].sm.cache
        /\ returned[1].key \notin DOMAIN managers[n].sm.cache
        /\ \E c \in 1..Len(managers) : managers[c].parent # 0

\* C11: between resets the memo of a SeedManager only grows: a step leaves
\* the cache alone, or adds the one requested key with the value returned
\* and keeps every existing entry, or (reset) empties it; no step changes
\* master_seed, so get_seed of any key returns after the step, a reset
\* included, what it returned before.
C11_CacheGrowsResetClears ==
    [][\A m \in 1..Len(managers) :
        LET before == managers[m].sm
            after == managers'[m].sm
        IN  /\ after.master_seed = before.master_seed
            /\ \/ after.cache = before.cache
               \/ after.cache = EmptyCache
               \/ \E key \in DOMAIN after.cache \ DOMAIN before.cache :
                    /\ DOMAIN after.cache = DOMAIN before.cache \cup {key}
                    /\ \A k \in DOMAIN before.cache :
                            after.cache[k] = before.cache[k]
                    /\ returned' = Some([master_seed |-> before.master_seed,
                                         key |-> key,
                                         value |-> after.cache[key]])
            /\ \A key \in AllSeedKeys :
                    get_seed(after, key) = get_seed(before, key)]_vars

\* the only instance has an empty memo although it has returned a seed:
\* it was reset after a get_seed
C11_Witness ==
    /\ Len(managers) = 1
    /\ managers[1].sm.cache = EmptyCache
    /\ ~IsNone(returned)
    /\ returned[1].master_seed = managers[1].sm.master_seed

\* C12: get_seeds(prefix, count) never produces more than count values and
\* has produced exactly count when it is exhausted; its i-th value
\* (i = 0, 1, ...) is the seed of the key prefix + "_" + i, as a fresh
\* instance with the same master seed derives it and as every live instance
\* with that master seed, the producing one included, returns it now, so
\* the same arguments reproduce the same sequence.
C12_GetSeedsSequence ==
    \A it \in 1..Len(iters) :
        LET f == iters[it]
            master_seed == managers[f.m].sm.master_seed
        IN  /\ Len(f.out) = f.i
            /\ f.i <= f.count
            /\ f.pc = "done" => Len(f.out) = f.count
            /\ \A j \in 1..Len(f.out) :
                LET key == <<f.prefix \o "_", j - 1>>
                IN  /\ f.out[j] = get_seed(NewSeedManager(master_seed), key)
                    /\ \A n \in 1..Len(managers) :
                        managers[n].sm.master_seed = master_seed =>
                            f.out[j] = get_seed(managers[n].sm, key)

\* an exhausted get_seeds() of two or more values whose instance has been
\* reset since, next to a second instance with the same master seed that
\* never derived those keys
C12_Witness ==
    \E it \in 1..Len(iters) :
        LET f == iters[it]
        IN  /\ f.pc = "done"
            /\ f.count >= 2
            /\ managers[f.m].sm.cache = EmptyCache
            /\ \E n \in 1..Len(managers) :
                /\ n # f.m
                /\ managers[n].sm.master_seed = managers[f.m].sm.master_seed
                /\ <<f.prefix \o "_", 1>> \notin DOMAIN managers[n].sm.cache

\* the instances whose master seed or memo a step changes
Changed ==
    {m \in 1..Len(managers) : managers'[m].sm # managers[m].sm}

\* C13: the master seed of a child manager is its parent's seed of the key
\* "namespace:" + namespace and its memo starts empty; a step changes the
\* memo of at most one instance, the one the operation was called on
\* (child_manager changes only the parent), and the master seed of none, so
\* parent and child never affect each other; child managers of one
\* namespace whose parents have equal master seeds return equal seeds for
\* every key.
C13_ChildManagerIsolation ==
    /\ [](\A c \in 1..Len(managers) :
            managers[c].parent # 0 =>
                managers[c].sm.master_seed =
                    get_seed(managers[managers[c].parent].sm,
                             <<"namespace:" \o managers[c].namespace, -1>>))
    /\ [](\A c \in 1..Len(managers), d \in 1..Len(managers) :
            (/\ managers[c].parent # 0
             /\ managers[d].parent # 0
             /\ managers[c].namespace = managers[d].namespace
             /\ managers[managers[c].parent].sm.master_seed =
                    managers[managers[d].parent].sm.master_seed)
                => \A key \in AllSeedKeys :
                        get_seed(managers[c].sm, key) = get_seed(managers[d].sm, key))
    /\ [][/\ Cardinality(Changed) <= 1
          /\ \A m \in Changed :
                /\ managers'[m].sm.master_seed = managers[m].sm.master_seed
                /\ \/ managers'[m].sm.cache = EmptyCache
                   \/ /\ returned'[1].master_seed = managers[m].sm.master_seed
                      /\ returned'[1].key \in
                            DOMAIN managers'[m].sm.cache \ DOMAIN managers[m].sm.cache
          /\ Len(managers') > Len(managers) =>
                LET new == managers'[Len(managers')]
                IN  new.parent # 0 =>
                        /\ new.sm.cache = EmptyCache
                        /\ Changed \subseteq {new.parent}
                        /\ new.sm.master_seed = returned'[1].value
                        /\ returned'[1].key = <<"namespace:" \o new.namespace, -1>>
                        /\ returned'[1].master_seed =
                                managers[new.parent].sm.master_seed]_vars

\* two child managers of one namespace, made by two parents with the same
\* master seed, one of which has derived a key that neither the other child
\* nor its own parent has derived
C13_Witness ==
    \E c \in 1..Len(managers), d \in 1..Len(managers) :
        /\ managers[c].parent # 0
        /\ managers[d].parent # 0
        /\ managers[c].parent # managers[d].parent
        /\ managers[c].namespace = managers[d].namespace
        /\ managers[managers[c].parent].sm.master_seed =
                managers[managers[d].parent].sm.master_seed
        /\ \E key \in SeedKeys :
            /\ key \in DOMAIN managers[c].sm.cache
            /\ key \notin DOMAIN managers[d].sm.cache
            /\ key \notin DOMAIN managers[managers[c].parent].sm.cache

\* the values supplied with a weight above zero
PositiveValues(choices) ==
    {choices[n][1] : n \in {k \in 1..Len(choices) : choices[k][2] > 0}}

\* C14: constructing a WeightedChoice fails exactly when the sequence of
\* choices is empty, a weight is negative or the weights sum to zero; on a
\* constructed instance the value select() returned, and the value it
\* returns for every value of random(), is a supplied value whose weight is
\* not zero.
C14_ConstructionAndSelect ==
    choice.status # "none" =>
        LET choices == choice.choices
            weights == [n \in 1..Len(choices) |-> choices[n][2]]
            invalid == \/ Len(choices) = 0
                       \/ \E n \in 1..Len(choices) : weights[n] < 0
                       \/ SumWeights(weights) = 0
        IN  /\ choice.status = "error" <=> invalid
            /\ choice.status = "ok" <=> ~invalid
            /\ choice.status = "ok" =>
                /\ ~IsNone(choice.last) =>
                        choice.last[1] \in PositiveValues(choices)
                /\ \A seed \in 0..(RandRes - 1) :
                        select([choice.wc EXCEPT !.seed = seed, !.pos = 0])
                            \in PositiveValues(choices)

\* a constructed sampler with a zero weight before, between or after the
\* positive ones has returned a value
C14_Witness ==
    /\ choice.status = "ok"
    /\ ~IsNone(choice.last)
    /\ Len(choice.choices) = 3
    /\ \E n \in 1..3 : choice.choices[n][2] = 0
    /\ choice.last[1] = "B"
    /\ choice.wc.pos = 2

\* the ages of a band that lie within [min_age, max_age]
AgesKept(band, min_age, max_age) ==
    {a \in band[2]..band[3] : min_age <= a /\ a <= max_age}

\* C15: a constructed AgeDistribution keeps exactly the bands among
\* pediatric [0, 17], commercial [18, 64] and medicare [65, 100] that have
\* an age within [min_age, max_age], each with the range of its ages within
\* those limits; construction fails when no band has such an age; every
\* sample() is an age of the band drawn that lies within the kept range of
\* that band, within [min_age, max_age] and within [0, 100].
C15_ClippedBands ==
    ages.status # "none" =>
        LET min_age == ages.d.min_age
            max_age == ages.d.max_age
            bands == {band_definitions[n] : n \in 1..Len(band_definitions)}
            kept == {b \in bands : AgesKept(b, min_age, max_age) # {}}
            ranges == {ages.d._band_ranges[n] : n \in 1..Len(ages.d._band_ranges)}
        IN  /\ kept = {} => ages.status = "error"
            /\ ages.status = "ok" =>
                /\ Cardinality(ranges) = Len(ages.d._band_ranges)
                /\ {r[1] : r \in ranges} = {b[1] : b \in kept}
                /\ \A r \in ranges : \E b \in kept :
                    /\ b[1] = r[1]
                    /\ AgesKept(b, min_age, max_age) = r[2]..r[3]
                /\ ~IsNone(ages.last) =>
                    /\ \E b \in kept :
                        /\ b[1] = ages.band[1]
                        /\ ages.last[1] \in AgesKept(b, min_age, max_age)
                    /\ min_age <= ages.last[1] /\ ages.last[1] <= max_age
                    /\ 0 <= ages.last[1] /\ ages.last[1] <= 100

\* AgeDistribution(min_age=18, max_age=65): the pediatric band is dropped,
\* medicare is clipped to [65, 65], and a sample of 65 was drawn
C15_Witness ==
    /\ ages.status = "ok"
    /\ ages.d.min_age = 18
    /\ ages.d.max_age = 65
    /\ Len(ages.d._band_ranges) = 2
    /\ ages.band = Some("medicare")
    /\ ages.last = Some(65)

\* C16: every sample() of a NormalDistribution takes one value g from
\* gauss() and returns it clamped: g when no bound is violated, max(g,
\* min_val) with min_val alone, min(g, max_val) with max_val alone, and
\* with both bounds and min_val <= max_val the violated bound when g lies
\* outside [min_val, max_val] and g otherwise, so that the result lies in
\* [min_val, max_val] (with min_val > max_val that composition is max_val).
C16_ClampedNotResampled ==
    /\ normal.draws = normal.samples
    /\ ~IsNone(normal.last) =>
        LET g == normal.g[1]
            value == normal.last[1]
            min_val == normal.min_val
            max_val == normal.max_val
        IN  /\ (IsNone(min_val) /\ IsNone(max_val)) => value = g
            /\ (~IsNone(min_val) /\ IsNone(max_val)) =>
                    /\ value >= min_val[1]
                    /\ value = IF g < min_val[1] THEN min_val[1] ELSE g
            /\ (IsNone(min_val) /\ ~IsNone(max_val)) =>
                    /\ value <= max_val[1]
                    /\ value = IF g > max_val[1] THEN max_val[1] ELSE g
            /\ (~IsNone(min_val) /\ ~IsNone(max_val)) =>
                    /\ min_val[1] <= max_val[1] =>
                        /\ min_val[1] <= value /\ value <= max_val[1]
                        /\ g < min_val[1] => value = min_val[1]
                        /\ g > max_val[1] => value = max_val[1]
                        /\ (min_val[1] <= g /\ g <= max_val[1]) => value = g
                    /\ min_val[1] > max_val[1] => value = max_val[1]

\* NormalDistribution(min_val=0, max_val=60) whose second sample drew a
\* value below 0 and returned the bound
C16_Witness ==
    /\ normal.status = "ok"
    /\ normal.min_val = Some(0)
    /\ normal.max_val = Some(60)
    /\ normal.samples = 2
    /\ normal.g = Some(-5)
    /\ normal.last = Some(0)

StepOrder == <<"gender", "plan", "age", "lookup", "seed", "factory">>

FactoryKeywords == {"seed", "gender", "plan_type", "min_age", "max_age"}

\* C17: the indices of a run are processed in increasing order; the steps
\* taken for an index are an initial part of: gender draw, plan type draw,
\* age band draw, age band lookup, derivation of the seed of "entity_" + i,
\* factory invocation, always through the lookup and to the end when the
\* label is recognized; the factory is invoked at most once per index,
\* with exactly the keywords seed, gender, plan_type, min_age and max_age
\* carrying the values drawn, looked up and derived; processing an index
\* advances each of the three streams by one draw, whatever its outcome,
\* and nothing else advances them.
C17_StepOrder ==
    /\ [](\A g \in Generators :
            (Started(g) /\ obs[g].processed > 0) =>
                LET calls == obs[g].calls[run[g].n]
                IN  /\ Len(obs[g].steps) \in {4, 6}
                    /\ obs[g].steps = SubSeq(StepOrder, 1, Len(obs[g].steps))
                    /\ \A a \in 1..Len(calls), b \in 1..Len(calls) :
                            a < b => calls[a].i < calls[b].i
                    /\ \A a \in 1..Len(calls) :
                        /\ DOMAIN calls[a].kwargs = FactoryKeywords
                        /\ calls[a].i < obs[g].processed
                        /\ calls[a].kwargs.seed =
                                get_seed(gen[g].seed_manager, <<"entity_", calls[a].i>>)
                        /\ calls[a].kwargs.min_age <= calls[a].kwargs.max_age)
    /\ [][\A g \in Generators :
            IF obs'[g].processed = obs[g].processed + 1
            THEN LET gender == select(gen[g]._gender_choice)
                     plan_type == select(gen[g]._plan_choice)
                     age_band == select(run[g].age_choice)
                     before == obs[g].calls[run[g].n]
                     after == obs'[g].calls[run[g].n]
                 IN  /\ obs[g].processed = run[g].i
                     /\ gen'[g]._gender_choice.pos = gen[g]._gender_choice.pos + 1
                     /\ gen'[g]._plan_choice.pos = gen[g]._plan_choice.pos + 1
                     /\ run'[g].age_choice.pos = run[g].age_choice.pos + 1
                     /\ Len(obs'[g].steps) = 6 <=> age_band \in RecognizedBands
                     /\ IF Len(obs'[g].steps) = 6
                        THEN /\ Len(after) = Len(before) + 1
                             /\ SubSeq(after, 1, Len(before)) = before
                             /\ after[Len(after)].i = run[g].i
                             /\ after[Len(after)].kwargs.gender = gender
                             /\ after[Len(after)].kwargs.plan_type = plan_type
                             /\ <<after[Len(after)].kwargs.min_age,
                                  after[Len(after)].kwargs.max_age>> =
                                    _select_age_band(age_band)
                        ELSE after = before
            ELSE /\ gen'[g]._gender_choice.pos \in {gen[g]._gender_choice.pos, 0}
                 /\ gen'[g]._plan_choice.pos \in {gen[g]._plan_choice.pos, 0}
                 /\ run'[g].age_choice.pos \in {run[g].age_choice.pos, 0}]_vars

\* a run in which one index failed at the lookup, one in the factory and
\* the latest went through all six steps
C17_Witness ==
    \E g \in Generators :
        /\ run[g].pc = "yielded"
        /\ obs[g].lookup_failed = 1
        /\ obs[g].factory_failed = 1
        /\ obs[g].processed = 3
        /\ Len(obs[g].steps) = 6
        /\ Len(obs[g].calls[run[g].n]) = 2

\* the table of C18: label, min_age, max_age
AgeBandTable ==
    {<<"0-17", 0, 17>>, <<"18-34", 18, 34>>, <<"35-54", 35, 54>>,
     <<"55-64", 55, 64>>, <<"65+", 65, 90>>}

\* C18: every factory call receives the (min_age, max_age) that the fixed
\* table gives for the label drawn, with min_age <= max_age; processing an
\* index whose label is not in the table increments failed and nothing
\* else of the progress, invokes no factory, derives no seed (the seed
\* manager is left as it was, without the key of the index) and leaves the
\* run at the next index, unless the progress callback due then raises.
C18_AgeBandLookup ==
    /\ [](\A g \in Generators : Started(g) =>
            \A a \in 1..Len(obs[g].calls[run[g].n]) :
                LET kwargs == obs[g].calls[run[g].n][a].kwargs
                IN  /\ kwargs.min_age <= kwargs.max_age
                    /\ \E row \in AgeBandTable :
                            <<row[2], row[3]>> = <<kwargs.min_age, kwargs.max_age>>)
    /\ [][\A g \in Generators :
            obs'[g].processed = obs[g].processed + 1 =>
                LET age_band == select(run[g].age_choice)
                    labels == {row[1] : row \in AgeBandTable}
                    before == obs[g].calls[run[g].n]
                    after == obs'[g].calls[run[g].n]
                IN  IF age_band \in labels
                    THEN /\ Len(after) = Len(before) + 1
                         /\ <<age_band, after[Len(after)].kwargs.min_age,
                              after[Len(after)].kwargs.max_age>> \in AgeBandTable
                    ELSE /\ run'[g].progress =
                                [run[g].progress EXCEPT !.failed = @ + 1]
                         /\ after = before
                         /\ gen'[g].seed_manager = gen[g].seed_manager
                         /\ <<"entity_", run[g].i>> \notin
                                DOMAIN gen'[g].seed_manager.cache
                         /\ obs'[g].yielded = obs[g].yielded
                         /\ obs'[g].lookup_failed = obs[g].lookup_failed + 1
                         /\ \/ /\ run'[g].pc = "top"
                               /\ run'[g].i = run[g].i + 1
                            \/ /\ BoundaryDue(gen[g].progress_callback, run[g].i)
                               /\ run'[g].pc = "raised"]_vars

\* a run that went on after an unrecognized label: the index after it was
\* given to the factory with a range of the table
C18_Witness ==
    \E g \in Generators :
        /\ Started(g)
        /\ obs[g].lookup_failed >= 1
        /\ run[g].progress.failed >= 1
        /\ Len(obs[g].steps) = 6
        /\ Len(obs[g].calls[run[g].n]) >= 1
        /\ obs[g].calls[run[g].n][Len(obs[g].calls[run[g].n])].i = obs[g].processed - 1
        /\ obs[g].processed - 1 > 0
        /\ obs[g].lookup_failed + Len(obs[g].calls[run[g].n]) = obs[g].processed

\* C19: when the progress callback raises, the exception leaves generate():
\* the run is over with that exception and control is back at the
\* consumer; failed counts the entity failures only, not the callback's;
\* and from then on the run processes no index, yields no entity, invokes
\* neither the factory nor the callback, and changes nothing of the
\* generator.
C19_CallbackFailureIsFatal ==
    /\ [](\A g \in Generators :
            /\ obs[g].callback_raised <=>
                    (run[g].pc = "raised" /\ run[g].error.kind = "callback raised")
            /\ obs[g].callback_raised =>
                /\ thread # g
                /\ run[g].progress.failed =
                        obs[g].factory_failed + obs[g].lookup_failed
                /\ run[g].progress.completed = obs[g].yielded
                /\ obs[g].processed \in {run[g].i, run[g].i + 1})
    /\ [][\A g \in Generators :
            (obs[g].callback_raised /\ obs'[g].callback_raised) =>
                /\ run'[g] = run[g]
                /\ obs'[g] = obs[g]
                /\ gen'[g] = gen[g]]_vars

\* the callback raised at the first boundary of a longer run, after an
\* index that had failed in the factory
C19_Witness ==
    \E g \in Generators :
        /\ obs[g].callback_raised
        /\ run[g].pc = "raised"
        /\ run[g].i = ReportEvery - 1
        /\ run[g].count > ReportEvery
        /\ run[g].progress.failed >= 1
        /\ obs[g].callbacks[Len(obs[g].callbacks)].kind = "boundary"

\* C20: generate() works on demand.  Until the first next() of a run
\* nothing is drawn, derived, handed to the factory or reported, and the
\* generator is as the call found it; while the consumer holds the k-th
\* entity the factory has been invoked for no index beyond that entity's
\* and the report for that index is still pending; an abandoned run stays
\* as it was when the consumer stopped: no later index, no pending
\* boundary report and no final report.
C20_WorkOnDemand ==
    /\ [](\A g \in Generators :
            LET calls == obs[g].calls[run[g].n]
                reports == obs[g].callbacks
            IN  /\ run[g].pc = "created" =>
                    /\ obs[g].processed = 0 /\ obs[g].yielded = 0
                    /\ calls = <<>> /\ reports = <<>>
                    /\ run[g].age_choice = NoChoice
                /\ run[g].pc = "yielded" =>
                    /\ thread = 0
                    /\ obs[g].yielded >= 1
                    /\ obs[g].yielded = run[g].progress.completed
                    /\ calls[Len(calls)].i = run[g].i
                    /\ \A a \in 1..Len(calls) : calls[a].i <= run[g].i
                    /\ obs[g].processed = run[g].i + 1
                    /\ \A c \in 1..Len(reports) :
                            reports[c].kind = "boundary" /\ reports[c].i < run[g].i
                /\ run[g].pc = "closed" =>
                    /\ obs[g].processed \in {0, run[g].i + 1}
                    /\ \A a \in 1..Len(calls) : calls[a].i <= run[g].i
                    /\ \A c \in 1..Len(reports) :
                            reports[c].kind = "boundary" /\ reports[c].i < run[g].i)
    /\ [][\A g \in Generators :
            /\ run'[g].pc = "created" => gen'[g] = gen[g]
            /\ run'[g].pc = "closed" =>
                /\ run'[g] = [run[g] EXCEPT !.pc = "closed"]
                /\ obs'[g] = obs[g]
                /\ gen'[g] = gen[g]]_vars

\* a consumer that took the entities of the indices 0..99 of a longer run
\* with a progress callback and then abandoned it: the report of the first
\* boundary was never made
C20_Witness ==
    \E g \in Generators :
        /\ run[g].pc = "closed"
        /\ gen[g].progress_callback
        /\ run[g].i = ReportEvery - 1
        /\ run[g].count > ReportEvery
        /\ obs[g].yielded >= ReportEvery - 1
        /\ obs[g].callbacks = <<>>

\* C21: the keyword arguments the factory receives at an index do not
\* depend on the outcome of the factory at earlier indices: of two first
\* runs of generators built with the same seed and constraints, whatever
\* the indices at which their factories failed and whatever their counts,
\* the factory is invoked at the same indices among those both have
\* processed and receives the same seed, gender, plan_type, min_age and
\* max_age at each.
C21_ArgumentsIgnoreEarlierFailures ==
    \A g \in Generators, h \in Generators :
        (/\ gen[g].status = "ok" /\ gen[h].status = "ok"
         /\ gen[g].seed = gen[h].seed
         /\ gen[g].constraints = gen[h].constraints
         /\ run[g].n = 1 /\ run[h].n = 1) =>
            LET cg == obs[g].calls[1]
                ch == obs[h].calls[1]
            IN  \A a \in 1..Len(cg) :
                    /\ \A b \in 1..Len(ch) :
                            cg[a].i = ch[b].i => cg[a].kwargs = ch[b].kwargs
                    /\ cg[a].i < obs[h].processed =>
                            \E b \in 1..Len(ch) : ch[b].i = cg[a].i

\* two generators with the same seed and constraints: the factory of one
\* failed at the indices 0 and 1 and that of the other at none, and both
\* were invoked at index 2
C21_Witness ==
    /\ gen[1].status = "ok" /\ gen[2].status = "ok"
    /\ gen[1].seed = gen[2].seed
    /\ gen[1].constraints = gen[2].constraints
    /\ obs[1].factory_failed = 2 /\ obs[1].yielded = 0
    /\ obs[2].factory_failed = 0 /\ obs[2].yielded = 2
    /\ \E a \in 1..Len(obs[1].calls[1]), b \in 1..Len(obs[2].calls[1]) :
            obs[1].calls[1][a].i = 2 /\ obs[2].calls[1][b].i = 2

\* the seed arguments that stand for the default master seed
DefaultSeedArgs == {None, Some(0), Some(42)}

\* C22: the seed manager of a generator has master seed 42 when the seed
\* argument is None or 0 and the argument itself otherwise; two generators
\* built with the same constraints and with seeds among None, 0 and 42
\* make the same factory calls in their first runs: the k-th call of one
\* has the index and the keyword arguments of the k-th call of the other.
C22_ZeroSeedIsDefaultSeed ==
    /\ \A g \in Generators :
        gen[g].status # "none" =>
            gen[g].seed_manager.master_seed =
                IF gen[g].seed = None \/ gen[g].seed = Some(0) THEN 42
                ELSE gen[g].seed[1]
    /\ \A g \in Generators, h \in Generators :
        (/\ gen[g].status = "ok" /\ gen[h].status = "ok"
         /\ gen[g].seed \in DefaultSeedArgs
         /\ gen[h].seed \in DefaultSeedArgs
         /\ gen[g].constraints = gen[h].constraints
         /\ run[g].n = 1 /\ run[h].n = 1) =>
            /\ gen[g].seed_manager.master_seed = gen[h].seed_manager.master_seed
            /\ \A k \in 1..Len(obs[g].calls[1]) :
                    k <= Len(obs[h].calls[1]) =>
                        obs[g].calls[1][k] = obs[h].calls[1][k]

\* a generator built with seed=0 and one built with seed=42 have both been
\* consumed to exhaustion for the same count
C22_Witness ==
    /\ gen[1].status = "ok" /\ gen[2].status = "ok"
    /\ gen[1].seed = Some(0)
    /\ gen[2].seed = Some(42)
    /\ gen[1].constraints = gen[2].constraints
    /\ run[1].pc = "done" /\ run[2].pc = "done"
    /\ run[1].count = run[2].count
    /\ Len(obs[1].calls[1]) >= 2
    /\ Len(obs[2].calls[1]) >= 2

=============================================================================
